---- MODULE Spec2Model ----
(***************************************************************************)
(* A model of mkenv.py (pyenv-mkenv): the version sort key, the version    *)
(* filter, the interactive picker, the resolution of the command line into *)
(* Arguments, and create_environment's sequence of external calls.         *)
(*                                                                         *)
(* Strings the program inspects character by character (version names,     *)
(* filter strings) are sequences of one-character strings.  A response     *)
(* typed at the picker's prompt is the sequence of its comma-separated,    *)
(* stripped fields: <<>> is the empty response, <<"1","2">> is "1,2".      *)
(***************************************************************************)
EXTENDS Integers, Sequences

VARIABLES
    pc,          \* position of the run
    listing,     \* names found in $PYENV_ROOT/versions, in directory order
    versions,    \* result of get_pyenv_versions()
    ns,          \* the parsed namespace: py_version, pick, requirements
    found,       \* requirements files found by the walk of pick_requirements
    matching,    \* matching_versions of from_parsed
    version,     \* Arguments.py_version
    reqs,        \* Arguments.requirements
    caller,      \* who called picker
    options,     \* picker's options
    nargs,       \* picker's nargs
    allow_quit,  \* picker's allow_quit
    counter,     \* picker's attempt counter
    response,    \* the response picker read at this prompt
    printed,     \* what picker printed for that response
    result,      \* what picker returned
    calls,       \* the external commands run so far, with their exit status
    warned,      \* the paths warnings.warn was called for
    status,      \* how the process ended
    error        \* the exception that ended it

vars == <<pc, listing, versions, ns, found, matching, version, reqs, caller,
          options, nargs, allow_quit, counter, response, printed, result,
          calls, warned, status, error>>

(***************************************************************************)
(* Bounds of the model.                                                    *)
(***************************************************************************)
MaxNames == 2       \* names in a directory listing handed to the sort
MaxInstalled == 2   \* installed versions in a run of main
MaxOptions == 2     \* options of a picker called on its own
MaxTokens == 2      \* comma-separated fields of a typed response
MaxAttempts == 2    \* prompts of one picker call
MaxReqs == 2        \* occurrences of -r on the command line
MaxFound == 2       \* requirements files the walk finds

None == "None"

(***************************************************************************)
(* Characters and strings.                                                 *)
(***************************************************************************)
digits == {"0", "1", "2", "3", "4", "5", "6", "7", "8", "9"}

DigitVal(c) ==
    CASE c = "0" -> 0 [] c = "1" -> 1 [] c = "2" -> 2 [] c = "3" -> 3
      [] c = "4" -> 4 [] c = "5" -> 5 [] c = "6" -> 6 [] c = "7" -> 7
      [] c = "8" -> 8 [] c = "9" -> 9

\* Code points, as str comparison uses them.
Ord(c) ==
    CASE c = "(" -> 40 [] c = "-" -> 45 [] c = "." -> 46 [] c = "/" -> 47
      [] c \in digits -> 48 + DigitVal(c)
      [] c = "^" -> 94 [] c = "a" -> 97 [] c = "x" -> 120

\* int() of a string of digits.
RECURSIVE int(_)
int(s) ==
    IF Len(s) = 0 THEN 0
    ELSE 10 * int(SubSeq(s, 1, Len(s) - 1)) + DigitVal(s[Len(s)])

\* The position after the longest run of digits of s that starts at i.
RECURSIVE DigitRunEnd(_, _)
DigitRunEnd(s, i) ==
    IF i <= Len(s) /\ s[i] \in digits THEN DigitRunEnd(s, i + 1) ELSE i

(***************************************************************************)
(* ver_re = (?P<major>\d+)\.(?P<minor>\d+)(\.(?P<patch>\d+))?              *)
(***************************************************************************)
NoMatch == [ok |-> FALSE]

\* The value of a group that took no part in the match (None): no digit string
\* is empty, since \d+ takes at least one digit.
NoGroup == <<>>

\* ver_re.match(s, i): the greedy match that starts exactly at i.
ver_re_match(s, i) ==
    LET e1 == DigitRunEnd(s, i)
        e2 == DigitRunEnd(s, e1 + 1)
        e3 == DigitRunEnd(s, e2 + 1)
    IN  IF e1 = i \/ e1 > Len(s) \/ s[e1] # "." \/ e2 = e1 + 1
        THEN NoMatch
        ELSE IF e2 <= Len(s) /\ s[e2] = "." /\ e3 > e2 + 1
             THEN [ok |-> TRUE, start |-> i, end |-> e3,
                   major |-> SubSeq(s, i, e1 - 1),
                   minor |-> SubSeq(s, e1 + 1, e2 - 1),
                   patch |-> SubSeq(s, e2 + 1, e3 - 1)]
             ELSE [ok |-> TRUE, start |-> i, end |-> e2,
                   major |-> SubSeq(s, i, e1 - 1),
                   minor |-> SubSeq(s, e1 + 1, e2 - 1),
                   patch |-> NoGroup]

\* ver_re.finditer(s) from position i: the non-overlapping matches, left to right.
RECURSIVE finditer(_, _)
finditer(s, i) ==
    IF i > Len(s) THEN <<>>
    ELSE LET m == ver_re_match(s, i)
         IN  IF m.ok THEN <<m>> \o finditer(s, m.end)
             ELSE finditer(s, i + 1)

\* ver_re.sub("", s) from position i: s without the matches.
RECURSIVE ver_re_sub(_, _)
ver_re_sub(s, i) ==
    IF i > Len(s) THEN <<>>
    ELSE LET m == ver_re_match(s, i)
         IN  IF m.ok THEN ver_re_sub(s, m.end)
             ELSE <<s[i]>> \o ver_re_sub(s, i + 1)

(***************************************************************************)
(* sort_key                                                                *)
(***************************************************************************)
\* A variant that takes a missing patch for patch 0.
VersionTuplePatchZero(m) ==
    LET patch == IF m.patch = NoGroup THEN 0 ELSE int(m.patch)
    IN  <<-int(m.major), -int(m.minor), -patch>>

\* The tuple sort_key appends for one match.
VersionTuple(m) ==
    LET patch == IF m.patch = NoGroup THEN -1 ELSE int(m.patch)
    IN  <<-int(m.major), -int(m.minor), -patch>>

KeyHead(s) ==
    IF s[1] \in digits THEN <<0>> ELSE <<1, ver_re_sub(s, 1)>>

\* A variant that ends the key of a name without a version by a last-place tuple.
sort_key_NoMatchLast(s) ==
    LET ms == finditer(s, 1)
    IN  IF ms = <<>> THEN KeyHead(s) \o <<<<1, 1, 1>>>>
        ELSE KeyHead(s) \o [j \in 1..Len(ms) |-> VersionTuple(ms[j])]

sort_key(s) ==
    LET ms == finditer(s, 1)
    IN  KeyHead(s) \o [j \in 1..Len(ms) |-> VersionTuple(ms[j])]

\* a < b for two sequences of integers, as Python compares tuples and strings.
RECURSIVE IntSeqLess(_, _, _)
IntSeqLess(a, b, i) ==
    IF i > Len(a) THEN i <= Len(b)
    ELSE IF i > Len(b) THEN FALSE
    ELSE IF a[i] = b[i] THEN IntSeqLess(a, b, i + 1)
    ELSE a[i] < b[i]

StrOrds(s) == [j \in 1..Len(s) |-> Ord(s[j])]

\* The elements at place i of two keys that agree before i: the group marker
\* at place 1, the base string at place 2 of a key of group 1, else a tuple.
ElemLess(x, y, i, group) ==
    IF i = 1 THEN x < y
    ELSE IF i = 2 /\ group = 1 THEN IntSeqLess(StrOrds(x), StrOrds(y), 1)
    ELSE IntSeqLess(x, y, 1)

\* k1 < k2 for two sort keys (tuple comparison).
RECURSIVE KeyLessFrom(_, _, _)
KeyLessFrom(k1, k2, i) ==
    IF i > Len(k1) THEN i <= Len(k2)
    ELSE IF i > Len(k2) THEN FALSE
    ELSE IF k1[i] = k2[i] THEN KeyLessFrom(k1, k2, i + 1)
    ELSE ElemLess(k1[i], k2[i], i, k1[1])

KeyLess(k1, k2) == KeyLessFrom(k1, k2, 1)

\* x put into the sorted sequence s behind every element that is not greater.
RECURSIVE Insert(_, _)
Insert(x, s) ==
    IF s = <<>> THEN <<x>>
    ELSE IF KeyLess(sort_key(x), sort_key(s[1])) THEN <<x>> \o s
    ELSE <<s[1]>> \o Insert(x, Tail(s))

\* sorted(names, key=sort_key): a stable sort.
RECURSIVE sorted(_)
sorted(names) ==
    IF names = <<>> THEN <<>>
    ELSE Insert(names[Len(names)], sorted(SubSeq(names, 1, Len(names) - 1)))

get_pyenv_versions(dir) == sorted(dir)

(***************************************************************************)
(* filter_versions                                                         *)
(***************************************************************************)
startswith(v, f) == Len(f) <= Len(v) /\ SubSeq(v, 1, Len(f)) = f

\* The patterns of the model are a sequence of literal characters and "."
\* (any character), with an optional "^" in front; "(" opens a group that is
\* never closed, which re.compile refuses.
re_compile_ok(p) == \A j \in 1..Len(p) : p[j] # "("

MatchHere(p, v, i) ==
    \A j \in 1..Len(p) :
        /\ i + j - 1 <= Len(v)
        /\ p[j] = "." \/ p[j] = v[i + j - 1]

\* regex.search(v) for the compiled pattern p.
re_search(p, v) ==
    IF Len(p) > 0 /\ p[1] = "^" THEN MatchHere(Tail(p), v, 1)
    ELSE \E i \in 1..(Len(v) + 1) : MatchHere(p, v, i)

\* Whether version v passes the filter string.
Passes(filter_str, v) ==
    IF startswith(filter_str, <<"/">>) THEN re_search(Tail(filter_str), v)
    ELSE startswith(v, filter_str)

\* list(filter_versions(filter_str)) over the sorted versions vs; ok is FALSE
\* when re.compile raises.
filter_versions(filter_str, vs) ==
    IF startswith(filter_str, <<"/">>) /\ ~re_compile_ok(Tail(filter_str))
    THEN [ok |-> FALSE, list |-> <<>>]
    ELSE [ok |-> TRUE, list |-> SelectSeq(vs, LAMBDA v : Passes(filter_str, v))]

(***************************************************************************)
(* picker                                                                  *)
(***************************************************************************)
\* nargs is "1", "2" (the integers), "?", "*" or "+".
IntNargs == {"1", "2"}
NargsValues == IntNargs \cup {"?", "*", "+"}
NargsInt(n) == IF n = "1" THEN 1 ELSE 2

multioption(n) == (n \in IntNargs /\ NargsInt(n) > 1) \/ n \in {"+", "*"}

allows_empty(n) == n \in {"?", "*"}

\* The fields a response can be made of: digit strings, the quit letter in
\* both cases, and a word.
IndexTokens == {"0", "1", "2"}
Tokens == IndexTokens \cup {"q", "Q", "x"}

lower(t) == IF t = "Q" THEN "q" ELSE t

\* int(response) of line 257, applied to the whole typed response: a response
\* with a comma in it, or one that is not a digit string, raises ValueError.
IntOfResponse(raw) ==
    IF Len(raw) = 1 /\ raw[1] \in IndexTokens
    THEN [ok |-> TRUE, n |-> DigitVal(raw[1])]
    ELSE [ok |-> FALSE, n |-> 0]

\* A variant that compares the fields with "q" as typed.
QuitFoundCaseSensitive(raw, multi) ==
    IF multi THEN \E j \in 1..Len(raw) : raw[j] = "q"
    ELSE Len(raw) = 1 /\ raw[1] = "q"

\* "q" in (r.lower() for r in responses): responses are the fields of a
\* multi-option picker, and the whole response otherwise.
QuitFound(raw, multi) ==
    IF multi THEN \E j \in 1..Len(raw) : lower(raw[j]) = "q"
    ELSE Len(raw) = 1 /\ lower(raw[1]) = "q"

\* The number of elements in responses (line 245-248).
NResponses(raw, multi) == IF multi THEN Len(raw) ELSE 1

Pending == [tag |-> "pending", val |-> <<>>]
ReturnedNone == [tag |-> "None", val |-> <<>>]
ReturnedQuit == [tag |-> "QUIT_SIGNAL", val |-> <<>>]

\* A variant whose lookup takes any index below 1 or above the last for the
\* nearest option.
LookupClamped(opts, raw, multi) ==
    LET r == IntOfResponse(raw)
        n == IF r.n < 1 THEN 1 ELSE IF r.n > Len(opts) THEN Len(opts) ELSE r.n
    IN  IF ~r.ok THEN [result |-> Pending, printed |-> "is not a valid command or integer"]
        ELSE IF multi
        THEN [result |-> [tag |-> "list",
                          val |-> [j \in 1..NResponses(raw, multi) |-> opts[n]]],
              printed |-> ""]
        ELSE [result |-> [tag |-> "single", val |-> <<opts[n]>>], printed |-> ""]

\* Lines 254-270: the loop over responses and what it leaves: each turn looks
\* up int(response), the whole response, in opt_dict.
Lookup(opts, raw, multi) ==
    LET r == IntOfResponse(raw)
    IN  IF ~r.ok THEN [result |-> Pending, printed |-> "is not a valid command or integer"]
        ELSE IF r.n \notin 1..Len(opts)
        THEN [result |-> Pending, printed |-> "does not correspond to an option"]
        ELSE IF multi
        THEN [result |-> [tag |-> "list",
                          val |-> [j \in 1..NResponses(raw, multi) |-> opts[r.n]]],
              printed |-> ""]
        ELSE [result |-> [tag |-> "single", val |-> <<opts[r.n]>>], printed |-> ""]

\* One turn of picker's loop (lines 233-270) on the typed response raw.
PickerTurn(opts, n, aq, raw) ==
    IF raw = <<>>
    THEN IF allows_empty(n)
         THEN [result |-> ReturnedNone, printed |-> ""]
         ELSE [result |-> Pending, printed |-> "No option given"]
    ELSE IF aq /\ QuitFound(raw, multioption(n))
    THEN [result |-> ReturnedQuit, printed |-> ""]
    ELSE Lookup(opts, raw, multioption(n))

\* The typed responses of the model.
RECURSIVE SeqsUpTo(_, _)
SeqsUpTo(S, n) ==
    IF n = 0 THEN {<<>>}
    ELSE LET shorter == SeqsUpTo(S, n - 1)
         IN  shorter \cup {Append(q, x) : q \in shorter, x \in S}

Responses == SeqsUpTo(Tokens, MaxTokens)

\* The responses typed in a run of main.
MainResponses ==
    {<<>>, <<"0">>, <<"1">>, <<"2">>, <<"q">>, <<"Q">>, <<"x">>, <<"1", "2">>}

Typed(who) == IF who = "direct" THEN Responses ELSE MainResponses

\* Sequences over S without repetition, of length at most n.
DistinctSeqs(S, n) ==
    {q \in SeqsUpTo(S, n) : \A i, j \in 1..Len(q) : i # j => q[i] # q[j]}

(***************************************************************************)
(* The inputs of the model.                                                *)
(***************************************************************************)
\* Version names handed to the sort: major.minor[.patch] alone, behind "a" or
\* before "a", and names with no version or with two.
Nums == {<<"2">>, <<"1", "0">>}
PatchNums == {<<"0">>, <<"1", "0">>}
VersionStrs ==
    {a \o <<".">> \o b : a \in Nums, b \in Nums}
    \cup {a \o <<".">> \o b \o <<".">> \o c : a \in Nums, b \in Nums, c \in PatchNums}
Names ==
    VersionStrs
    \cup {<<"a">> \o v : v \in VersionStrs}
    \cup {v \o <<"a">> : v \in VersionStrs}
    \cup {<<"a">>, <<"2", "a">>, <<"2", "a", "2", ".", "2">>,
          <<"a", "2", ".", "2", "-", "2", ".", "1", "0">>,
          <<"a", "2", ".", "2", "-", "1", "0", ".", "2">>}

\* The installed versions of a run of main, and the filter strings given.
Installed == {<<"2", ".", "2">>, <<"2", ".", "1", "0">>, <<"a", "2", ".", "2">>}
FilterStrs ==
    {<<>>, <<"2", ".", "1">>, <<"a">>, <<"x">>,
     <<"/", "2", ".", "2">>, <<"/", "^", "2", ".", "1">>, <<"/", "(">>}

\* The paths given with -r (None for a bare -r) and the files the walk finds.
ReqFiles == {"requirements.txt", "requirements-dev.txt", "requirements-test.txt"}
ReqArgs == {"requirements.txt", "requirements-dev.txt", None}

Option(i) ==
    CASE i = 1 -> "o1" [] i = 2 -> "o2" [] i = 3 -> "o3" [] OTHER -> "o4"

ExitCodes == {0, 1}

(***************************************************************************)
(* The state after start-up.                                               *)
(***************************************************************************)
NoNamespace == [py_version |-> <<>>, pick |-> FALSE, requirements |-> <<>>]

Blank ==
    /\ listing = <<>>
    /\ versions = <<>>
    /\ found = <<>>
    /\ matching = <<>>
    /\ version = <<>>
    /\ reqs = <<>>
    /\ counter = 0
    /\ response = <<>>
    /\ printed = ""
    /\ result = Pending
    /\ calls = <<>>
    /\ warned = <<>>
    /\ status = "running"
    /\ error = ""

\* main() with a parsed command line (parse_args): requirements is <<>> for
\* the None of a command line without -r.
InitMain ==
    /\ pc = "main"
    /\ ns \in [py_version : FilterStrs, pick : BOOLEAN,
               requirements : SeqsUpTo(ReqArgs, MaxReqs)]
    /\ caller = ""
    /\ options = <<>>
    /\ nargs = "1"
    /\ allow_quit = FALSE
    /\ Blank

\* picker() called on its own.
InitPicker ==
    /\ pc = "picker_call"
    /\ ns = NoNamespace
    /\ caller = "direct"
    /\ \E n \in 0..MaxOptions : options = [i \in 1..n |-> Option(i)]
    /\ nargs \in NargsValues
    /\ allow_quit \in BOOLEAN
    /\ Blank

Init == InitMain \/ InitPicker

\* sorted(names, key=sort_key) called on its own, on a directory listing.
InitSort ==
    /\ pc = "sort"
    /\ ns = NoNamespace
    /\ caller = ""
    /\ options = <<>>
    /\ nargs = "1"
    /\ allow_quit = FALSE
    /\ listing \in DistinctSeqs(Names, MaxNames)
    /\ versions = <<>>
    /\ found = <<>>
    /\ matching = <<>>
    /\ version = <<>>
    /\ reqs = <<>>
    /\ counter = 0
    /\ response = <<>>
    /\ printed = ""
    /\ result = Pending
    /\ calls = <<>>
    /\ warned = <<>>
    /\ status = "running"
    /\ error = ""

(***************************************************************************)
(* Steps.                                                                  *)
(***************************************************************************)
\* An exception nothing catches: the process ends with a traceback.
Raise(exc) ==
    /\ status' = "fatal"
    /\ error' = exc
    /\ pc' = "end"

\* A call of picker(opts, nargs=n, allow_quit=aq) by who, with fresh locals.
CallPicker(opts, n, aq, who) ==
    /\ options' = opts
    /\ nargs' = n
    /\ allow_quit' = aq
    /\ caller' = who
    /\ response' = <<>>
    /\ printed' = ""
    /\ result' = Pending
    /\ pc' = "picker_call"

SortListing ==
    /\ pc = "sort"
    /\ versions' = get_pyenv_versions(listing)
    /\ pc' = "sorted"
    /\ UNCHANGED <<listing, ns, found, matching, version, reqs, caller, options,
                   nargs, allow_quit, counter, response, printed, result, calls,
                   warned, status, error>>

\* A variant that takes the last match.
FirstMatchLast(ms) == ms[Len(ms)]

\* The version of Arguments when -p is not given.
FirstMatch(ms) == ms[1]

\* Arguments.from_parsed, lines 137-141: list the versions directory, sort,
\* filter, and take the first match or ask.
FromParsedVersion ==
    /\ pc = "main"
    /\ \E dir \in DistinctSeqs(Installed, MaxInstalled) :
        LET vs == get_pyenv_versions(dir)
            f == filter_versions(ns.py_version, vs)
        IN  /\ listing' = dir
            /\ versions' = vs
            /\ matching' = f.list
            /\ IF ~f.ok
               THEN /\ Raise("re.error")
                    /\ UNCHANGED <<version, caller, options, nargs, allow_quit,
                                   response, printed, result>>
               ELSE IF ns.pick
               THEN /\ CallPicker(f.list, "1", TRUE, "pick_versions")
                    /\ UNCHANGED <<version, status, error>>
               ELSE IF f.list = <<>>
               THEN /\ Raise("IndexError")
                    /\ UNCHANGED <<version, caller, options, nargs, allow_quit,
                                   response, printed, result>>
               ELSE /\ version' = FirstMatch(f.list)
                    /\ pc' = "requirements"
                    /\ UNCHANGED <<caller, options, nargs, allow_quit, response,
                                   printed, result, status, error>>
    /\ UNCHANGED <<ns, found, reqs, counter, calls, warned>>

\* picker, lines 208-232: max(opt_dict) raises ValueError when there is no option.
PickerEnter ==
    /\ pc = "picker_call"
    /\ IF options = <<>>
       THEN /\ Raise("ValueError")
            /\ UNCHANGED counter
       ELSE /\ counter' = 1
            /\ pc' = "picker_loop"
            /\ UNCHANGED <<status, error>>
    /\ UNCHANGED <<listing, versions, ns, found, matching, version, reqs, caller,
                   options, nargs, allow_quit, response, printed, result, calls,
                   warned>>

\* picker, lines 233-236: the head of the loop, up to the prompt.  The response
\* of the turn before is dead here (input() overwrites it before any read).
PickerLoop ==
    /\ pc = "picker_loop"
    /\ counter <= MaxAttempts
    /\ counter' = counter + 1
    /\ response' = <<>>
    /\ printed' = ""
    /\ pc' = "picker"
    /\ UNCHANGED <<listing, versions, ns, found, matching, version, reqs, caller,
                   options, nargs, allow_quit, result, calls, warned, status, error>>

\* picker, lines 236-270: the response typed at the prompt, and what the body
\* of the loop makes of it: a return, or the next turn.
PickerPrompt ==
    /\ pc = "picker"
    /\ \E raw \in Typed(caller) :
        LET t == PickerTurn(options, nargs, allow_quit, raw)
        IN  /\ response' = raw
            /\ printed' = t.printed
            /\ result' = t.result
            /\ pc' = IF t.result.tag = "pending" THEN "picker_loop"
                     ELSE "picker_return"
    /\ UNCHANGED <<listing, versions, ns, found, matching, version, reqs, caller,
                   options, nargs, allow_quit, counter, calls, warned, status, error>>

\* pick_versions, lines 276-278: the quit signal ends the process with status 0.
PickVersionsReturn ==
    /\ pc = "picker_return"
    /\ caller = "pick_versions"
    /\ IF result.tag = "QUIT_SIGNAL"
       THEN /\ status' = "exit0"
            /\ pc' = "end"
            /\ UNCHANGED version
       ELSE /\ version' = result.val[1]
            /\ pc' = "requirements"
            /\ UNCHANGED status
    /\ UNCHANGED <<listing, versions, ns, found, matching, reqs, caller, options,
                   nargs, allow_quit, counter, response, printed, result, calls,
                   warned, error>>

\* namespace.requirements == [None], line 143.
OnlyBareFlag(r) == r = <<None>>

\* Arguments.from_parsed, lines 143-148, and pick_requirements, lines 283-291:
\* the walk finds the requirements files and picker is called on them.
FromParsedRequirements ==
    /\ pc = "requirements"
    /\ IF OnlyBareFlag(ns.requirements)
       THEN \E walk \in DistinctSeqs(ReqFiles, MaxFound) :
                /\ found' = walk
                /\ CallPicker(walk, "*", FALSE, "pick_requirements")
                /\ UNCHANGED reqs
       ELSE /\ reqs' = ns.requirements
            /\ pc' = "create"
            /\ UNCHANGED <<found, caller, options, nargs, allow_quit, response,
                           printed, result>>
    /\ UNCHANGED <<listing, versions, ns, matching, version, counter, calls,
                   warned, status, error>>

\* list(pick_requirements()), line 144: list(None) raises TypeError.
PickRequirementsReturn ==
    /\ pc = "picker_return"
    /\ caller = "pick_requirements"
    /\ IF result.tag = "None"
       THEN /\ Raise("TypeError")
            /\ UNCHANGED reqs
       ELSE /\ reqs' = result.val
            /\ pc' = "create"
            /\ UNCHANGED <<status, error>>
    /\ UNCHANGED <<listing, versions, ns, found, matching, version, caller, options,
                   nargs, allow_quit, counter, response, printed, result, calls,
                   warned>>

Ran(cmd, arg, rc) == [cmd |-> cmd, arg |-> arg, returncode |-> rc]

\* What follows the pip upgrade and each install: the next requirements file,
\* or "Done!" and the end of main.
Proceed(done) ==
    IF done < Len(reqs)
    THEN /\ pc' = "install"
         /\ UNCHANGED status
    ELSE /\ pc' = "end"
         /\ status' = "done"

\* A variant that goes on whatever the status.
CreationNeverFatal(rc) == FALSE

\* Whether a nonzero status of "pyenv virtualenv" ends the run (line 301).
CreationFatal(rc) == rc # 0

\* create_environment, lines 295-307: pyenv virtualenv.
CreateVirtualenv ==
    /\ pc = "create"
    /\ \E rc \in ExitCodes :
        /\ calls' = Append(calls, Ran("virtualenv", version, rc))
        /\ IF CreationFatal(rc)
           THEN Raise("RuntimeError")
           ELSE /\ pc' = "local"
                /\ UNCHANGED <<status, error>>
    /\ UNCHANGED <<listing, versions, ns, found, matching, version, reqs, caller,
                   options, nargs, allow_quit, counter, response, printed, result,
                   warned>>

\* create_environment, lines 309-314: pyenv local, with check=True.
SetLocal ==
    /\ pc = "local"
    /\ \E rc \in ExitCodes :
        /\ calls' = Append(calls, Ran("local", <<>>, rc))
        /\ IF rc # 0
           THEN Raise("CalledProcessError")
           ELSE /\ pc' = "pip"
                /\ UNCHANGED <<status, error>>
    /\ UNCHANGED <<listing, versions, ns, found, matching, version, reqs, caller,
                   options, nargs, allow_quit, counter, response, printed, result,
                   warned>>

\* create_environment, lines 316-324: pip install -U pip, with check=True.
UpdatePip ==
    /\ pc = "pip"
    /\ \E rc \in ExitCodes :
        /\ calls' = Append(calls, Ran("pip_upgrade", <<>>, rc))
        /\ IF rc # 0
           THEN Raise("CalledProcessError")
           ELSE /\ Proceed(0)
                /\ UNCHANGED error
    /\ UNCHANGED <<listing, versions, ns, found, matching, version, reqs, caller,
                   options, nargs, allow_quit, counter, response, printed, result,
                   warned>>

\* The requirements file the loop of line 325 is at: three calls came before.
NextReq == Len(calls) - 2

\* Whether an install's status makes the loop call warnings.warn (line 331).
InstallWarns(rc) == rc # 0

\* create_environment, lines 325-339: pip install -r for one file; None among
\* the arguments of subprocess.run raises TypeError before anything is run.
InstallRequirements ==
    /\ pc = "install"
    /\ LET req == reqs[NextReq]
       IN  IF req = None
           THEN /\ Raise("TypeError")
                /\ UNCHANGED <<calls, warned>>
           ELSE \E rc \in ExitCodes :
                /\ calls' = Append(calls, Ran("install", req, rc))
                /\ warned' = IF InstallWarns(rc) THEN Append(warned, req) ELSE warned
                /\ Proceed(NextReq)
                /\ UNCHANGED error
    /\ UNCHANGED <<listing, versions, ns, found, matching, version, reqs, caller,
                   options, nargs, allow_quit, counter, response, printed, result>>

Next ==
    \/ FromParsedVersion
    \/ PickerEnter
    \/ PickerLoop
    \/ PickerPrompt
    \/ PickVersionsReturn
    \/ FromParsedRequirements
    \/ PickRequirementsReturn
    \/ CreateVirtualenv
    \/ SetLocal
    \/ UpdatePip
    \/ InstallRequirements

Spec == Init /\ [][Next]_vars

NextSort == SortListing

SpecSort == InitSort /\ [][NextSort]_vars

(***************************************************************************)
(* Properties of create_environment and of the resolution of Arguments.    *)
(***************************************************************************)
\* C1: the external steps are gated in sequence: "pyenv local" runs only after
\* "pyenv virtualenv" returned 0, the pip upgrade only after "pyenv local"
\* returned 0, an install only after the pip upgrade returned 0; a nonzero
\* status of "pyenv virtualenv" leaves it the only call and the run fatal.
C1_StepsGated ==
    /\ \A i \in 1..Len(calls) :
        /\ calls[i].cmd = "virtualenv" => i = 1
        /\ calls[i].cmd = "local" =>
              i = 2 /\ calls[1].cmd = "virtualenv" /\ calls[1].returncode = 0
        /\ calls[i].cmd = "pip_upgrade" =>
              i = 3 /\ calls[2].cmd = "local" /\ calls[2].returncode = 0
        /\ calls[i].cmd = "install" =>
              i > 3 /\ calls[3].cmd = "pip_upgrade" /\ calls[3].returncode = 0
    /\ (calls # <<>> /\ calls[1].returncode # 0) =>
          Len(calls) = 1 /\ status = "fatal" /\ pc = "end"

C1_Witness ==
    /\ Len(calls) = 1
    /\ calls[1].returncode # 0
    /\ status = "fatal"
    /\ reqs # <<>>

Installs == SubSeq(calls, 4, Len(calls))

\* C2: once the three fatal steps have succeeded, every element of the
\* requirements list is installed exactly once, in list order, whatever the
\* earlier installs returned; exactly the installs that returned nonzero are
\* warned about; and the run ends with "Done!", not with a fatal error.
C2_AllInstallsAttempted ==
    (pc = "end" /\ Len(calls) >= 3 /\ calls[3].returncode = 0) =>
        /\ status = "done"
        /\ [i \in 1..Len(Installs) |-> Installs[i].arg] = reqs
        /\ warned = [i \in 1..Len(SelectSeq(Installs, LAMBDA c : c.returncode # 0))
                       |-> SelectSeq(Installs, LAMBDA c : c.returncode # 0)[i].arg]

InCreateEnvironment == pc \in {"create", "local", "pip", "install"} \/ calls # <<>>

\* C7: in a run that reaches create_environment, py_version is one of the
\* installed versions and passes the filter; without -p no installed version
\* that passes the filter has a smaller sort key (it is the first match in
\* sorted order), and with -p it is the match whose number the user typed.
C7_VersionResolved ==
    (pc = "requirements" \/ InCreateEnvironment) =>
        /\ \E i \in 1..Len(listing) : listing[i] = version
        /\ Passes(ns.py_version, version)
        /\ ~ns.pick =>
              \A i \in 1..Len(listing) :
                  Passes(ns.py_version, listing[i]) =>
                      ~KeyLess(sort_key(listing[i]), sort_key(version))
        /\ ns.pick => \E i \in 1..Len(matching) : matching[i] = version
        /\ (ns.pick /\ pc = "requirements") =>
              /\ Len(response) = 1
              /\ response[1] \in IndexTokens
              /\ version = matching[DigitVal(response[1])]

C7_Witness ==
    /\ pc = "create"
    /\ ns.pick
    /\ Len(matching) = 2
    /\ version = matching[2]
    /\ listing # versions

\* C8: whenever a bare -r is on the command line, alone or with other -r
\* occurrences, the requirements picker is called before create_environment,
\* and no element of the list handed to create_environment is the
\* placeholder of a bare flag.
C8_NoPlaceholderHandedOver ==
    InCreateEnvironment =>
        /\ \A j \in 1..Len(reqs) : reqs[j] # None
        /\ (\E j \in 1..Len(ns.requirements) : ns.requirements[j] = None) =>
              caller = "pick_requirements"

(***************************************************************************)
(* Properties of picker.                                                   *)
(***************************************************************************)
\* A response has been read and the body of the loop has run on it.
Answered == pc = "picker_return" \/ (pc = "picker_loop" /\ counter > 1)

QuitLetters == {"q", "Q"}

\* A field of the response is the quit letter: a field is a comma-separated
\* part for a multi-option picker, and the whole response otherwise.
HasQuitToken ==
    IF multioption(nargs) THEN \E j \in 1..Len(response) : response[j] \in QuitLetters
    ELSE Len(response) = 1 /\ response[1] \in QuitLetters

ValidIndex(t) == t \in IndexTokens /\ DigitVal(t) \in 1..Len(options)

\* C3: with allow_quit, a response with a field equal to "q" in either case
\* makes picker return the quit signal; in the version picker the process then
\* ends with status 0 and no external command has run or can run.
C3_QuitEndsRun ==
    /\ (Answered /\ allow_quit /\ HasQuitToken) =>
          pc = "picker_return" /\ result.tag = "QUIT_SIGNAL"
    /\ (caller = "pick_versions" /\ result.tag = "QUIT_SIGNAL" /\ pc # "picker_return") =>
          /\ status = "exit0"
          /\ calls = <<>>
          /\ ~ENABLED Next

C3_Witness ==
    /\ status = "exit0"
    /\ response = <<"Q">>
    /\ Len(options) = 2

\* C4: an empty response is accepted only when nargs is "?" or "*", and then
\* picker returns an empty result at once (an empty sequence of options for the
\* multi-option "*"); for every other nargs it prints a diagnostic and prompts
\* again.
C4_EmptyResponse ==
    (Answered /\ response = <<>>) =>
        IF allows_empty(nargs)
        THEN /\ pc = "picker_return"
             /\ result.val = <<>>
             /\ result.tag = IF multioption(nargs) THEN "list" ELSE result.tag
             /\ result.tag \in {"list", "None"}
        ELSE /\ pc = "picker_loop"
             /\ result.tag = "pending"
             /\ printed = "No option given"

\* C5: for a multi-option picker a response of k comma-separated valid
\* indices is accepted and the k options they name are returned in the order
\* typed.
C5_MultiSelection ==
    (/\ Answered
     /\ multioption(nargs)
     /\ response # <<>>
     /\ ~(allow_quit /\ HasQuitToken)
     /\ \A j \in 1..Len(response) : ValidIndex(response[j])) =>
        /\ pc = "picker_return"
        /\ result.tag = "list"
        /\ result.val = [j \in 1..Len(response) |-> options[DigitVal(response[j])]]

\* C10: a non-empty response (not a quit) with a field that is no integer or
\* no index of an option is rejected whole: picker neither raises nor returns,
\* it prints a diagnostic and prompts again; so a returned selection holds
\* only options, those named by the fields of one fully valid response.
C10_InvalidRejected ==
    /\ (/\ Answered
        /\ response # <<>>
        /\ ~(allow_quit /\ HasQuitToken)
        /\ \E j \in 1..Len(response) : ~ValidIndex(response[j])) =>
          /\ pc = "picker_loop"
          /\ result.tag = "pending"
          /\ printed # ""
          /\ status = "running"
    /\ (Answered /\ result.tag \in {"list", "single"}) =>
          /\ \A j \in 1..Len(response) : ValidIndex(response[j])
          /\ result.val = [j \in 1..Len(response) |-> options[DigitVal(response[j])]]

C10_Witness ==
    /\ pc = "picker_loop"
    /\ counter > 1
    /\ multioption(nargs)
    /\ response = <<"1", "0">>
    /\ Len(options) = 2

(***************************************************************************)
(* Properties of the sort.                                                 *)
(***************************************************************************)
HasVersion(s) == finditer(s, 1) # <<>>

Base(s) == ver_re_sub(s, 1)

SameGroup(s, t) == (s[1] \in digits) <=> (t[1] \in digits)

\* (major, minor, patch) of the first match, a missing patch being -1.
MajorMinorPatch(s) ==
    LET m == finditer(s, 1)[1]
    IN  <<int(m.major), int(m.minor), IF m.patch = NoGroup THEN -1 ELSE int(m.patch)>>

\* Descending (major, minor, patch) between places i < j of the sorted list.
Descending(i, j) ==
    ~IntSeqLess(MajorMinorPatch(versions[i]), MajorMinorPatch(versions[j]), 1)

\* C6 as stated: names that share a base are sorted by descending (major,
\* minor, patch), a missing patch counting as -1.
C6_DescendingWithinBase ==
    pc = "sorted" =>
        \A i, j \in 1..Len(versions) :
            (/\ i < j
             /\ HasVersion(versions[i])
             /\ HasVersion(versions[j])
             /\ Base(versions[i]) = Base(versions[j])) => Descending(i, j)

\* C6 amended: names of the same group (both start with a digit, or neither
\* does) that share a base are sorted by descending (major, minor, patch), a
\* missing patch counting as -1.
C6_DescendingWithinGroupAndBase ==
    pc = "sorted" =>
        \A i, j \in 1..Len(versions) :
            (/\ i < j
             /\ HasVersion(versions[i])
             /\ HasVersion(versions[j])
             /\ SameGroup(versions[i], versions[j])
             /\ Base(versions[i]) = Base(versions[j])) => Descending(i, j)

C6_Witness ==
    /\ pc = "sorted"
    /\ listing = <<<<"2", ".", "2">>, <<"2", ".", "2", ".", "0">>>>
    /\ versions = <<<<"2", ".", "2", ".", "0">>, <<"2", ".", "2">>>>

\* C9 as stated: within a group and a base, a name without a version sorts
\* after every name that has one.
C9_NoVersionLast ==
    pc = "sorted" =>
        \A i, j \in 1..Len(versions) :
            (/\ ~HasVersion(versions[i])
             /\ HasVersion(versions[j])
             /\ SameGroup(versions[i], versions[j])
             /\ Base(versions[i]) = Base(versions[j])) => j < i

\* C9 amended: within a group and a base, a name without a version sorts
\* before every name that has one.
C9_NoVersionFirst ==
    pc = "sorted" =>
        \A i, j \in 1..Len(versions) :
            (/\ ~HasVersion(versions[i])
             /\ HasVersion(versions[j])
             /\ SameGroup(versions[i], versions[j])
             /\ Base(versions[i]) = Base(versions[j])) => i < j

C9_Witness ==
    /\ pc = "sorted"
    /\ listing = <<<<"a", "2", ".", "2">>, <<"a">>>>
    /\ versions = <<<<"a">>, <<"a", "2", ".", "2">>>>

====
